---- MODULE Spec2Model ----
(***************************************************************************)
(* Configuration resolution of orion.core.cli.resolve_config:              *)
(* fetch_default_options, merge_env_vars, fetch_config and                 *)
(* merge_orion_config, over an explicit object heap so that deepcopy,      *)
(* aliasing and in-place mutation of Python dicts are visible.             *)
(***************************************************************************)
EXTENDS Integers, Sequences, FiniteSets, TLC

VARIABLES
    pc,             \* position in the resolution pipeline
    heap,           \* Python objects: sequence of dicts, address = index
    files,          \* what is on disk at each of DEF_CONFIG_FILES_PATHS
    environ,        \* os.environ restricted to the ENV_VARS_DB names
    orion_file,     \* args['config']: None or an open handle on a document
    default_config, \* value returned by fetch_default_options
    config,         \* value returned by merge_env_vars
    dbconfig,       \* 2nd argument of merge_orion_config
    cmdconfig,      \* value returned by fetch_config
    cmdargs,        \* 4th argument of merge_orion_config
    expconfig,      \* value returned by merge_orion_config
    raised,         \* exception that left merge_orion_config, "" if none
    warnings        \* indexes of the default paths log.warning was called for

vars == <<pc, heap, files, environ, orion_file, default_config, config,
          dbconfig, cmdconfig, cmdargs, expconfig, raised, warnings>>

----------------------------------------------------------------------------
(* Python values.  A value is None, a scalar (str, int, float) or a        *)
(* reference to a dict on the heap.                                        *)

None == [tag |-> "none", val |-> "", addr |-> 0]

Scalar(s) == [tag |-> "val", val |-> s, addr |-> 0]

Ref(a) == [tag |-> "ref", val |-> "", addr |-> a]

IsRef(v) == v.tag = "ref"

(* Fixed enumeration order of keys, used wherever the model walks a heap   *)
(* dict; the walks below write each key to a distinct slot, so their       *)
(* result does not depend on the order.                                    *)
KeyOrder == <<"name", "max_trials", "pool_size", "algorithms", "database",
              "metadata", "type", "host", "port", "user", "VCS">>

EmptyDict == [k \in {} |-> None]

\* nesteddict(): a defaultdict whose default_factory is nesteddict
nesteddict == [dd |-> TRUE, d |-> EmptyDict]

\* dict()
PlainDict == [dd |-> FALSE, d |-> EmptyDict]

Keys(h, a) == SelectSeq(KeyOrder, LAMBDA k : k \in DOMAIN h[a].d)

\* obj[k] = v
SetItem(h, a, k, v) == [h EXCEPT ![a].d = (k :> v) @@ @]

\* allocation of a new object; its address is Len(h) + 1
Alloc(h, obj) == Append(h, obj)

(* obj[k] on a nesteddict creates and stores a new nesteddict when k is    *)
(* missing; on a plain dict a missing key raises KeyError.                 *)
GetItem(h, a, k) ==
    IF k \in DOMAIN h[a].d
    THEN [h |-> h, v |-> h[a].d[k], err |-> ""]
    ELSE IF h[a].dd
         THEN LET h1 == Alloc(h, nesteddict)
              IN  [h |-> SetItem(h1, a, k, Ref(Len(h1))), v |-> Ref(Len(h1)),
                   err |-> ""]
         ELSE [h |-> h, v |-> None, err |-> "KeyError"]

\* obj[k][vk] = vv
SetSubItem(h, a, k, vk, vv) ==
    LET g == GetItem(h, a, k)
    IN  IF g.err # "" THEN [h |-> h, err |-> g.err]
        ELSE IF ~IsRef(g.v) THEN [h |-> g.h, err |-> "TypeError"]
        ELSE [h |-> SetItem(g.h, g.v.addr, vk, vv), err |-> ""]

----------------------------------------------------------------------------
(* YAML documents.  A document is empty, a scalar or sequence (any         *)
(* non-mapping), or a mapping given as the ordered list of its entries;    *)
(* NoFile stands for a path that cannot be opened.                         *)

NoFile == [kind |-> "nofile", s |-> "", items |-> <<>>]

DocNone == [kind |-> "none", s |-> "", items |-> <<>>]

DocScalar(s) == [kind |-> "scalar", s |-> s, items |-> <<>>]

DocMap(items) == [kind |-> "map", s |-> "", items |-> items]

Entry(k, v) == [k |-> k, v |-> v]

RECURSIVE LoadItems(_, _, _)
(* yaml.safe_load: the Python value of a document node, built from new     *)
(* objects.  An empty document loads as None, a mapping as a plain dict.   *)
Load(h, doc) ==
    IF doc.kind = "none" THEN [h |-> h, v |-> None]
    ELSE IF doc.kind = "scalar" THEN [h |-> h, v |-> Scalar(doc.s)]
    ELSE LET h1 == Alloc(h, PlainDict)
         IN  [h |-> LoadItems(h1, Len(h1), doc.items), v |-> Ref(Len(h1))]

LoadItems(h, a, items) ==
    IF items = <<>> THEN h
    ELSE LET e == Head(items)
             l == Load(h, e.v)
         IN  LoadItems(SetItem(l.h, a, e.k, l.v), a, Tail(items))

----------------------------------------------------------------------------
(* Module constants.                                                       *)

DEF_CMD_MAX_TRIALS == Scalar("inf")

DEF_CMD_POOL_SIZE == Scalar("10")

\* number of entries of DEF_CONFIG_FILES_PATHS
NumPaths == 3

\* the paths, named by their position in the list
DEF_CONFIG_FILES_PATHS == [i \in 1..NumPaths |-> i]

ENV_VARS_DB ==
    << [var |-> "ORION_DB_NAME", key |-> "name", default |-> "orion"],
       [var |-> "ORION_DB_TYPE", key |-> "type", default |-> "MongoDB"],
       [var |-> "ORION_DB_ADDRESS", key |-> "host", default |-> "127.0.1.1"] >>

\* the keys of ENV_VARS
ENV_VARS == {"database"}

----------------------------------------------------------------------------
(* fetch_default_options                                                   *)

RECURSIVE SeedEnvDefaults(_, _, _)
\* for _, key, default_value in env_vars: default_config[signifier][key] = ...
SeedEnvDefaults(h, a, evars) ==
    IF evars = <<>> THEN h
    ELSE LET e == Head(evars)
         IN  SeedEnvDefaults(
                 SetSubItem(h, a, "database", e.key, Scalar(e.default)).h,
                 a, Tail(evars))

\* the built-in defaults, in a new nesteddict at address Len(h) + 1
BuiltinDefaults(h) ==
    LET h0 == Alloc(h, nesteddict)
        a  == Len(h0)
        h1 == SetItem(h0, a, "name", None)
        h2 == SetItem(h1, a, "max_trials", DEF_CMD_MAX_TRIALS)
        h3 == SetItem(h2, a, "pool_size", DEF_CMD_POOL_SIZE)
        h4 == SetItem(h3, a, "algorithms", Scalar("random"))
    IN  SeedEnvDefaults(h4, a, ENV_VARS_DB)

RECURSIVE MergeGroup(_, _, _, _)
\* for vk, vv in v.items(): target[k][vk] = vv
MergeGroup(h, a, k, items) ==
    IF items = <<>> THEN h
    ELSE LET e == Head(items)
             l == Load(h, e.v)
         IN  MergeGroup(SetSubItem(l.h, a, k, e.k, l.v).h, a, k, Tail(items))

\* the else branch of the loop body: if k != 'name': default_config[k] = v
SetDefault(h, a, k, v) ==
    IF k # "name" THEN SetItem(h, a, k, v) ELSE h

RECURSIVE ApplyFileItems(_, _, _)
(* for k, v in cfg.items() over one default file.  st carries the heap,    *)
(* the address of default_config and the warned paths.  v.items() on a     *)
(* non-mapping raises AttributeError, which leaves the loop for the except *)
(* clause: the entries already applied stay applied.                       *)
ApplyFileItems(st, path, items) ==
    IF items = <<>> THEN st
    ELSE LET e == Head(items)
         IN  IF e.k \in ENV_VARS
             THEN IF e.v.kind # "map"
                  THEN [st EXCEPT !.warned = @ \cup {path}]
                  ELSE ApplyFileItems(
                           [st EXCEPT !.h = MergeGroup(st.h, st.a, e.k, e.v.items)],
                           path, Tail(items))
             ELSE LET l == Load(st.h, e.v)
                  IN  ApplyFileItems(
                          [st EXCEPT !.h = SetDefault(l.h, st.a, e.k, l.v)],
                          path, Tail(items))

(* One iteration of "for configpath in DEF_CONFIG_FILES_PATHS": IOError    *)
(* (no file) is logged at debug level, an empty document is skipped,       *)
(* cfg.items() on a non-mapping raises AttributeError (warning).           *)
LoadDefaultFile(st, fs, path) ==
    LET doc == fs[path]
    IN  IF doc.kind = "nofile" THEN st
        ELSE IF doc.kind = "none" THEN st
        ELSE IF doc.kind = "scalar" THEN [st EXCEPT !.warned = @ \cup {path}]
        ELSE ApplyFileItems(st, path, doc.items)

RECURSIVE LoadDefaultFiles(_, _, _)
LoadDefaultFiles(st, fs, paths) ==
    IF paths = <<>> THEN st
    ELSE LoadDefaultFiles(LoadDefaultFile(st, fs, Head(paths)), fs, Tail(paths))

\* the heap, the returned address and the warned paths
fetch_default_options(h, fs) ==
    LET h0 == BuiltinDefaults(h)
    IN  LoadDefaultFiles([h |-> h0, a |-> Len(h) + 1, warned |-> {}], fs,
                         DEF_CONFIG_FILES_PATHS)

----------------------------------------------------------------------------
(* copy.deepcopy: the object and every dict reachable from it are copied   *)
(* into new objects; a defaultdict keeps its default_factory.              *)

RECURSIVE DeepCopyObj(_, _)
RECURSIVE CopyItems(_, _, _, _)

DeepCopyObj(h, a) ==
    LET h1 == Alloc(h, [dd |-> h[a].dd, d |-> EmptyDict])
    IN  CopyItems(h1, a, Len(h1), Keys(h, a))

CopyItems(h, src, dst, ks) ==
    IF ks = <<>> THEN [h |-> h, a |-> dst]
    ELSE LET k == Head(ks)
             v == h[src].d[k]
         IN  IF IsRef(v)
             THEN LET c == DeepCopyObj(h, v.addr)
                  IN  CopyItems(SetItem(c.h, dst, k, Ref(c.a)), src, dst, Tail(ks))
             ELSE CopyItems(SetItem(h, dst, k, v), src, dst, Tail(ks))

deepcopy(h, v) ==
    IF IsRef(v)
    THEN LET c == DeepCopyObj(h, v.addr) IN [h |-> c.h, v |-> Ref(c.a)]
    ELSE [h |-> h, v |-> v]

----------------------------------------------------------------------------
(* merge_env_vars                                                          *)

\* os.getenv(var_name): None when the variable is not set
getenv(env, var) == env[var]

RECURSIVE OverlayEnv(_, _, _, _)
\* for var_name, key, _ in evars: if value is not None: newcfg[signif][key] = value
OverlayEnv(h, a, env, evars) ==
    IF evars = <<>> THEN h
    ELSE LET e == Head(evars)
             value == getenv(env, e.var)
         IN  IF value # None
             THEN OverlayEnv(SetSubItem(h, a, "database", e.key, value).h, a, env,
                             Tail(evars))
             ELSE OverlayEnv(h, a, env, Tail(evars))

\* faulty variant: the overlay is written into the argument itself
merge_env_vars_InPlace(h, cfg, env) ==
    [h |-> OverlayEnv(h, cfg.addr, env, ENV_VARS_DB), v |-> cfg]

merge_env_vars(h, cfg, env) ==
    LET newcfg == deepcopy(h, cfg)
    IN  [h |-> OverlayEnv(newcfg.h, newcfg.v.addr, env, ENV_VARS_DB),
         v |-> newcfg.v]

----------------------------------------------------------------------------
(* fetch_config                                                            *)

\* args['config'] when no --config was given
NoHandle == [kind |-> "nohandle", s |-> "", items |-> <<>>]

(* config = dict(); if orion_file: config = yaml.safe_load(orion_file).    *)
(* A file object is always true, whatever its content.                     *)
fetch_config(h, file) ==
    LET h1 == Alloc(h, PlainDict)
    IN  IF file.kind # "nohandle" THEN Load(h1, file)
        ELSE [h |-> h1, v |-> Ref(Len(h1))]

----------------------------------------------------------------------------
(* merge_orion_config.  st is [h, a, err]: the heap, the address of        *)
(* expconfig and the exception that ended the call ("" while none).        *)

RECURSIVE OverlayGroup(_, _, _, _)
\* for vk, vv in v.items(): expconfig[k][vk] = vv   (v is the dict at src)
OverlayGroup(st, k, src, ks) ==
    IF ks = <<>> \/ st.err # "" THEN st
    ELSE LET r == SetSubItem(st.h, st.a, k, Head(ks), st.h[src].d[Head(ks)])
         IN  OverlayGroup([st EXCEPT !.h = r.h, !.err = r.err], k, src, Tail(ks))

\* faulty variant: the group is replaced wholesale
MergeInto_Replace(st, k, v) ==
    [st EXCEPT !.h = SetItem(st.h, st.a, k, v)]

\* v.items() raises AttributeError unless v is a dict
MergeInto(st, k, v) ==
    IF ~IsRef(v) THEN [st EXCEPT !.err = "AttributeError"]
    ELSE OverlayGroup(st, k, v.addr, Keys(st.h, v.addr))

\* faulty variant: the test "v is not None" is missing
LayerItem_NoNoneCheck(st, k, v) ==
    IF k \in ENV_VARS THEN MergeInto(st, k, v)
    ELSE [st EXCEPT !.h = SetItem(st.h, st.a, k, v)]

\* the body of "for k, v in cfg.items()" of the first loop
LayerItem(st, k, v) ==
    IF k \in ENV_VARS THEN MergeInto(st, k, v)
    ELSE IF v # None THEN [st EXCEPT !.h = SetItem(st.h, st.a, k, v)]
    ELSE st

\* faulty variant: 'metadata' is assigned like any other key
CmdArgItem_Replace(st, k, v) ==
    IF v # None THEN [st EXCEPT !.h = SetItem(st.h, st.a, k, v)] ELSE st

\* the body of "for k, v in cmdargs.items()"
CmdArgItem(st, k, v) ==
    IF v # None
    THEN IF k = "metadata" THEN MergeInto(st, k, v)
         ELSE [st EXCEPT !.h = SetItem(st.h, st.a, k, v)]
    ELSE st

RECURSIVE LayerItems(_, _, _)
LayerItems(st, src, ks) ==
    IF ks = <<>> \/ st.err # "" THEN st
    ELSE LayerItems(LayerItem(st, Head(ks), st.h[src].d[Head(ks)]), src, Tail(ks))

\* one iteration of "for cfg in (dbconfig, cmdconfig)"
Layer(st, cfg) ==
    IF st.err # "" THEN st
    ELSE IF ~IsRef(cfg) THEN [st EXCEPT !.err = "AttributeError"]
    ELSE LayerItems(st, cfg.addr, Keys(st.h, cfg.addr))

RECURSIVE CmdArgItems(_, _, _)
CmdArgItems(st, src, ks) ==
    IF ks = <<>> \/ st.err # "" THEN st
    ELSE CmdArgItems(CmdArgItem(st, Head(ks), st.h[src].d[Head(ks)]), src, Tail(ks))

CmdArgs(st, args) ==
    IF st.err # "" THEN st
    ELSE IF ~IsRef(args) THEN [st EXCEPT !.err = "AttributeError"]
    ELSE CmdArgItems(st, args.addr, Keys(st.h, args.addr))

\* faulty variant: expconfig = config
CopyConfig_Alias(h, cfg) == [h |-> h, v |-> cfg]

\* expconfig = deepcopy(config)
CopyConfig(h, cfg) == deepcopy(h, cfg)

merge_orion_config(h, cfg, dbcfg, cmdcfg, args) ==
    LET c  == CopyConfig(h, cfg)
        s0 == [h |-> c.h, a |-> c.v.addr, err |-> ""]
        s1 == Layer(s0, dbcfg)
        s2 == Layer(s1, cmdcfg)
    IN  CmdArgs(s2, args)

----------------------------------------------------------------------------
(* Inputs.                                                                 *)

S(s) == DocScalar(s)

\* default files of the resolution pipeline: absent or well-formed
PipelineDocs ==
    { NoFile,
      DocMap(<<Entry("database", DocMap(<<Entry("host", S("10.0.0.1"))>>))>>),
      DocMap(<<Entry("database", DocMap(<<Entry("host", S("10.0.0.2")),
                                          Entry("name", S("site"))>>)),
               Entry("pool_size", S("4"))>>),
      DocMap(<<Entry("metadata", DocMap(<<Entry("user", S("carol"))>>))>>) }

\* default files of the loader taken alone, malformed ones included
DefaultDocs ==
    { NoFile, DocNone, S("text"),
      DocMap(<<Entry("pool_size", S("5"))>>),
      DocMap(<<Entry("pool_size", S("7")), Entry("name", S("exp"))>>),
      DocMap(<<Entry("pool_size", DocNone), Entry("algorithms", S("tpe"))>>),
      DocMap(<<Entry("database", DocMap(<<Entry("host", S("10.0.0.1"))>>))>>),
      DocMap(<<Entry("database", DocMap(<<Entry("host", S("10.0.0.2")),
                                          Entry("type", DocNone),
                                          Entry("port", S("27017"))>>)),
               Entry("max_trials", S("100"))>>),
      DocMap(<<Entry("pool_size", S("6")), Entry("database", S("text"))>>),
      DocMap(<<Entry("database", DocNone), Entry("pool_size", S("8"))>>),
      DocMap(<<Entry("metadata", DocMap(<<Entry("user", S("carol"))>>))>>) }

EnvNames == {ENV_VARS_DB[i].var : i \in DOMAIN ENV_VARS_DB}

\* every variable is unset or holds a value of its own
Environments ==
    { [n \in EnvNames |-> IF n \in set THEN Scalar(n) ELSE None] :
        set \in SUBSET EnvNames }

\* args['config']: no --config, or a handle on the user's file
UserDocs ==
    { NoHandle, DocNone,
      DocMap(<<Entry("pool_size", S("5")), Entry("max_trials", DocNone),
               Entry("name", S("exp"))>>),
      DocMap(<<Entry("database", DocMap(<<Entry("host", S("10.0.0.9")),
                                          Entry("type", DocNone)>>))>>),
      DocMap(<<Entry("metadata", DocMap(<<Entry("user", S("bob"))>>)),
               Entry("algorithms", S("tpe"))>>) }

\* the configuration of the experiment found in the database
DbDocs ==
    { DocMap(<<>>),
      DocMap(<<Entry("pool_size", S("7")), Entry("max_trials", S("50")),
               Entry("algorithms", DocNone)>>),
      DocMap(<<Entry("metadata", DocMap(<<Entry("user", S("alice"))>>)),
               Entry("max_trials", DocNone)>>),
      DocMap(<<Entry("database", DocMap(<<Entry("name", S("resumed"))>>))>>) }

\* the parsed command line without its 'config' entry
CmdArgDocs ==
    { DocMap(<<>>),
      DocMap(<<Entry("pool_size", S("3")), Entry("name", DocNone),
               Entry("metadata", DocNone)>>),
      DocMap(<<Entry("metadata", DocMap(<<Entry("VCS", S("git"))>>)),
               Entry("name", S("cli")), Entry("pool_size", DocNone)>>),
      DocMap(<<Entry("metadata", DocMap(<<Entry("VCS", S("hg")),
                                          Entry("user", S("dave"))>>)),
               Entry("max_trials", S("20"))>>),
      DocMap(<<Entry("database", DocMap(<<Entry("host", S("10.0.0.7"))>>))>>) }

----------------------------------------------------------------------------
(* The resolution pipeline.                                                *)

InitWith(docs) ==
    /\ pc = "start"
    /\ heap = <<>>
    /\ files \in [1..NumPaths -> docs]
    /\ environ = [n \in EnvNames |-> None]
    /\ orion_file = NoHandle
    /\ default_config = None
    /\ config = None
    /\ dbconfig = None
    /\ cmdconfig = None
    /\ cmdargs = None
    /\ expconfig = None
    /\ raised = ""
    /\ warnings = {}

Init == InitWith(PipelineDocs)

InitDefaults == InitWith(DefaultDocs)

FetchDefaultOptions ==
    /\ pc = "start"
    /\ LET r == fetch_default_options(heap, files)
       IN  /\ heap' = r.h
           /\ default_config' = Ref(r.a)
           /\ warnings' = r.warned
    /\ pc' = "defaults"
    /\ UNCHANGED <<files, environ, orion_file, config, dbconfig, cmdconfig,
                   cmdargs, expconfig, raised>>

MergeEnvVars ==
    /\ pc = "defaults"
    /\ \E env \in Environments :
         /\ environ' = env
         /\ LET r == merge_env_vars(heap, default_config, env)
            IN  /\ heap' = r.h
                /\ config' = r.v
    /\ pc' = "env"
    /\ UNCHANGED <<files, orion_file, default_config, dbconfig, cmdconfig,
                   cmdargs, expconfig, raised, warnings>>

(* OrionArgsParser.parse and the lookup of the experiment: the caller      *)
(* obtains the command-line mapping, the --config handle and the stored    *)
(* configuration of the experiment.                                        *)
ParseArgs ==
    /\ pc = "env"
    /\ \E f \in UserDocs, a \in CmdArgDocs, d \in DbDocs :
         /\ orion_file' = f
         /\ LET la == Load(heap, a)
                ld == Load(la.h, d)
            IN  /\ cmdargs' = la.v
                /\ dbconfig' = ld.v
                /\ heap' = ld.h
    /\ pc' = "args"
    /\ UNCHANGED <<files, environ, default_config, config, cmdconfig,
                   expconfig, raised, warnings>>

FetchConfig ==
    /\ pc = "args"
    /\ LET r == fetch_config(heap, orion_file)
       IN  /\ heap' = r.h
           /\ cmdconfig' = r.v
    /\ pc' = "file"
    /\ UNCHANGED <<files, environ, orion_file, default_config, config,
                   dbconfig, cmdargs, expconfig, raised, warnings>>

MergeOrionConfig ==
    /\ pc = "file"
    /\ LET r == merge_orion_config(heap, config, dbconfig, cmdconfig, cmdargs)
       IN  /\ heap' = r.h
           /\ raised' = r.err
           /\ expconfig' = IF r.err = "" THEN Ref(r.a) ELSE None
    /\ pc' = "merged"
    /\ UNCHANGED <<files, environ, orion_file, default_config, config,
                   dbconfig, cmdconfig, cmdargs, warnings>>

Next ==
    \/ FetchDefaultOptions
    \/ MergeEnvVars
    \/ ParseArgs
    \/ FetchConfig
    \/ MergeOrionConfig

Spec == Init /\ [][Next]_vars

\* the default-file loader on its own, over every list of DefaultDocs
NextDefaults == FetchDefaultOptions

SpecDefaults == InitDefaults /\ [][NextDefaults]_vars

----------------------------------------------------------------------------
(* Observation of values: the content of a value with addresses removed    *)
(* (what == compares in Python), and the objects reachable from it.        *)

Plain(tag, s) == [tag |-> tag, val |-> s, m |-> EmptyDict]

Missing == Plain("missing", "")

NoneV == Plain("none", "")

RECURSIVE DeepVal(_, _)
DeepVal(h, v) ==
    IF IsRef(v)
    THEN [tag |-> "map", val |-> "",
          m |-> [k \in DOMAIN h[v.addr].d |-> DeepVal(h, h[v.addr].d[k])]]
    ELSE Plain(v.tag, v.val)

RECURSIVE Reach(_, _)
Reach(h, v) ==
    IF IsRef(v)
    THEN {v.addr} \cup
         UNION {Reach(h, h[v.addr].d[k]) : k \in DOMAIN h[v.addr].d}
    ELSE {}

\* dv[k], Missing when dv is no mapping or has no key k
Get(dv, k) == IF dv.tag = "map" /\ k \in DOMAIN dv.m THEN dv.m[k] ELSE Missing

\* a value is set when it is present and not None
IsSet(dv) == dv.tag \notin {"missing", "none"}

DocKeys(doc) == {doc.items[i].k : i \in DOMAIN doc.items}

\* the node under key k of a mapping document (keys are unique)
DocEntry(doc, k) ==
    doc.items[CHOOSE i \in DOMAIN doc.items : doc.items[i].k = k].v

DocHas(doc, k) == doc.kind = "map" /\ k \in DocKeys(doc)

\* the content of a document, in the shape DeepVal gives its loaded value
RECURSIVE DocVal(_)
DocVal(doc) ==
    IF doc.kind = "map"
    THEN [tag |-> "map", val |-> "",
          m |-> [k \in DocKeys(doc) |-> DocVal(DocEntry(doc, k))]]
    ELSE IF doc.kind = "scalar" THEN Plain("val", doc.s)
    ELSE IF doc.kind = "none" THEN NoneV
    ELSE Missing

TopKeys == {"name", "max_trials", "pool_size", "algorithms", "database",
            "metadata"}

DbKeys == {"name", "type", "host", "port"}

\* the built-in defaults as section 4.1 of the specification lists them
BuiltinV ==
    DocVal(DocMap(<<Entry("name", DocNone), Entry("max_trials", S("inf")),
                    Entry("pool_size", S("10")), Entry("algorithms", S("random")),
                    Entry("database",
                          DocMap(<<Entry("name", S("orion")),
                                   Entry("type", S("MongoDB")),
                                   Entry("host", S("127.0.1.1"))>>))>>))

\* every key of every dict is one the walks enumerate
KeysKnown ==
    \A a \in DOMAIN heap :
        DOMAIN heap[a].d \subseteq {KeyOrder[i] : i \in DOMAIN KeyOrder}

----------------------------------------------------------------------------
(* Default-file loader: claims C5 and C10.                                 *)

\* a default file that parses to a non-mapping, or whose 'database' entry
\* is not a mapping
Malformed(doc) ==
    \/ doc.kind = "scalar"
    \/ /\ DocHas(doc, "database")
       /\ DocEntry(doc, "database").kind # "map"

\* the paths whose file is a well-formed mapping with a top-level entry k
DefinesTop(k) ==
    {p \in 1..NumPaths : ~Malformed(files[p]) /\ DocHas(files[p], k)}

\* the paths whose file is a mapping whose 'database' mapping has key vk
DefinesDb(vk) ==
    {p \in 1..NumPaths :
        /\ DocHas(files[p], "database")
        /\ DocHas(DocEntry(files[p], "database"), vk)}

Last(P) == CHOOSE p \in P : \A q \in P : q <= p

LastTop(k) ==
    IF DefinesTop(k) = {} THEN Get(BuiltinV, k)
    ELSE DocVal(DocEntry(files[Last(DefinesTop(k))], k))

LastDb(vk) ==
    IF DefinesDb(vk) = {} THEN Get(Get(BuiltinV, "database"), vk)
    ELSE DocVal(DocEntry(DocEntry(files[Last(DefinesDb(vk))], "database"), vk))

(* C5: a malformed default file contributes nothing, is warned about, and  *)
(* the files after it are still read: the loader's result equals its       *)
(* result on the same list with the malformed file absent.                 *)
C5_MalformedFileSkipped ==
    pc = "defaults" =>
        \A p \in 1..NumPaths :
            Malformed(files[p]) =>
                /\ p \in warnings
                /\ LET r == fetch_default_options(<<>>, [files EXCEPT ![p] = NoFile])
                   IN  DeepVal(heap, default_config) = DeepVal(r.h, Ref(r.a))

(* C10: the loader folds the default files, last listed wins, onto the     *)
(* built-in defaults: a top-level key other than 'name' and 'database'     *)
(* holds the value of the last-listed file that defines it (a file the     *)
(* loader skips as malformed defines nothing), 'database'                  *)
(* follows the same rule per inner key, 'name' is never taken from a file, *)
(* and without any file the result is the built-in defaults.               *)
C10_LastListedWins ==
    pc = "defaults" =>
        LET r == DeepVal(heap, default_config)
        IN  /\ \A k \in TopKeys \ {"name", "database"} : Get(r, k) = LastTop(k)
            /\ \A vk \in DbKeys : Get(Get(r, "database"), vk) = LastDb(vk)
            /\ Get(r, "name") = NoneV
            /\ ((\A p \in 1..NumPaths : files[p] = NoFile) => r = BuiltinV)

----------------------------------------------------------------------------
(* Resolver: claims C1, C3, C4, C8 and C9.                                 *)

EmptyMapV == [tag |-> "map", val |-> "", m |-> EmptyDict]

\* the call of merge_orion_config, and its normal return
MergeCall == pc = "file" /\ pc' = "merged"

Merged == pc = "merged" /\ raised = ""

\* the first of the values that is set, the last one when none is
FirstSet(vs) ==
    IF \E i \in DOMAIN vs : IsSet(vs[i])
    THEN vs[CHOOSE i \in DOMAIN vs : IsSet(vs[i]) /\ \A j \in 1..(i-1) : ~IsSet(vs[j])]
    ELSE vs[Len(vs)]

(* C1: for a top-level key that is neither 'database' nor 'metadata' the   *)
(* resolved value is the command-line value when that is not None, else    *)
(* the file value when present and not None, else the dbconfig value when  *)
(* present and not None, else the value of the default configuration.      *)
C1_Precedence ==
    Merged =>
        \A k \in TopKeys \ {"database", "metadata"} :
            Get(DeepVal(heap, expconfig), k) =
                FirstSet(<<Get(DeepVal(heap, cmdargs), k),
                           Get(DeepVal(heap, cmdconfig), k),
                           Get(DeepVal(heap, dbconfig), k),
                           Get(DeepVal(heap, config), k)>>)

\* all four sources give pool_size, the file gives max_trials as None
C1_Witness ==
    /\ Merged
    /\ Get(DeepVal(heap, config), "pool_size") = Plain("val", "4")
    /\ Get(DeepVal(heap, dbconfig), "pool_size") = Plain("val", "7")
    /\ Get(DeepVal(heap, cmdconfig), "pool_size") = Plain("val", "5")
    /\ Get(DeepVal(heap, cmdconfig), "max_trials") = NoneV
    /\ Get(DeepVal(heap, cmdargs), "pool_size") = Plain("val", "3")
    /\ Get(DeepVal(heap, expconfig), "pool_size") = Plain("val", "3")
    /\ Get(DeepVal(heap, expconfig), "max_trials") = Plain("val", "50")

\* the environment variable that lands on the database key vk, if any
EnvValue(vk) ==
    IF \E i \in DOMAIN ENV_VARS_DB : ENV_VARS_DB[i].key = vk
    THEN LET i == CHOOSE i \in DOMAIN ENV_VARS_DB : ENV_VARS_DB[i].key = vk
         IN  Plain(environ[ENV_VARS_DB[i].var].tag, environ[ENV_VARS_DB[i].var].val)
    ELSE Missing

FileDb(vk) ==
    IF DocHas(orion_file, "database") /\ DocHas(DocEntry(orion_file, "database"), vk)
    THEN DocVal(DocEntry(DocEntry(orion_file, "database"), vk))
    ELSE Missing

C4_InputsNotMutated ==
    [][MergeCall =>
        /\ DeepVal(heap', config) = DeepVal(heap, config)
        /\ DeepVal(heap', dbconfig) = DeepVal(heap, dbconfig)
        /\ DeepVal(heap', cmdconfig) = DeepVal(heap, cmdconfig)
        /\ DeepVal(heap', cmdargs) = DeepVal(heap, cmdargs)]_vars

\* the 'metadata' the accumulator holds when the command-line loop starts
AccMetadata ==
    FirstSet(<<Get(DeepVal(heap, cmdconfig), "metadata"),
               Get(DeepVal(heap, dbconfig), "metadata"),
               Get(DeepVal(heap, config), "metadata")>>)

(* C8: a 'metadata' mapping on the command line is merged key by key into  *)
(* the accumulator's 'metadata': its keys take the command-line values and *)
(* the other keys of the accumulator's 'metadata' keep theirs.             *)
C8_MetadataMerged ==
    [][(MergeCall /\ raised' = ""
          /\ Get(DeepVal(heap, cmdargs), "metadata").tag = "map") =>
        LET cm  == Get(DeepVal(heap, cmdargs), "metadata")
            acc == AccMetadata
            out == Get(DeepVal(heap', expconfig'), "metadata")
        IN  /\ out.tag = "map"
            /\ DOMAIN out.m = DOMAIN cm.m \cup DOMAIN acc.m
            /\ \A k \in DOMAIN cm.m : out.m[k] = cm.m[k]
            /\ \A k \in DOMAIN acc.m \ DOMAIN cm.m : out.m[k] = acc.m[k]]_vars

\* {user: alice} from dbconfig and {VCS: git} from the command line
C8_Witness ==
    /\ Merged
    /\ Get(DeepVal(heap, cmdargs), "metadata") =
           DocVal(DocMap(<<Entry("VCS", S("git"))>>))
    /\ Get(DeepVal(heap, cmdconfig), "metadata") = Missing
    /\ Get(DeepVal(heap, expconfig), "metadata") =
           DocVal(DocMap(<<Entry("user", S("alice")), Entry("VCS", S("git"))>>))

(* C9: with empty dbconfig, cmdconfig and cmdargs the resolver returns a   *)
(* mapping equal to the default configuration that shares no object with   *)
(* it.                                                                     *)
C9_RoundTrip ==
    (/\ Merged
     /\ DeepVal(heap, dbconfig) = EmptyMapV
     /\ DeepVal(heap, cmdconfig) = EmptyMapV
     /\ DeepVal(heap, cmdargs) = EmptyMapV) =>
        /\ DeepVal(heap, expconfig) = DeepVal(heap, config)
        /\ Reach(heap, expconfig) \cap Reach(heap, config) = {}

\* a round trip of a configuration with nested 'database' and 'metadata'
C9_Witness ==
    /\ Merged
    /\ DeepVal(heap, dbconfig) = EmptyMapV
    /\ DeepVal(heap, cmdconfig) = EmptyMapV
    /\ DeepVal(heap, cmdargs) = EmptyMapV
    /\ Get(DeepVal(heap, config), "metadata").tag = "map"
    /\ Cardinality(Reach(heap, expconfig)) = 3
    /\ DeepVal(heap, expconfig) = DeepVal(heap, config)

----------------------------------------------------------------------------
(* Environment merger and file fetcher: claims C7, C6 and C2.              *)

\* the database keys whose environment variable is set in env
SetKeys(env) ==
    {ENV_VARS_DB[i].key : i \in {j \in DOMAIN ENV_VARS_DB :
                                    env[ENV_VARS_DB[j].var] # None}}

\* the value env gives to the database key vk of SetKeys(env)
SetValue(env, vk) ==
    LET i == CHOOSE i \in DOMAIN ENV_VARS_DB : ENV_VARS_DB[i].key = vk
    IN  Plain("val", env[ENV_VARS_DB[i].var].val)

\* dv with the set environment variables written into its 'database'
WithEnv(dv, env) ==
    LET db == Get(dv, "database")
        nd == [vk \in DOMAIN db.m \cup SetKeys(env) |->
                 IF vk \in SetKeys(env) THEN SetValue(env, vk) ELSE db.m[vk]]
    IN  [dv EXCEPT !.m = ("database" :> [tag |-> "map", val |-> "", m |-> nd]) @@ @]

(* C7: merge_env_vars leaves its argument as it was and returns a mapping  *)
(* that shares no object with it and differs from it only at database[key] *)
(* for the descriptors whose environment variable is set, where it holds   *)
(* the variable's value.                                                   *)
C7_EnvMergeFrame ==
    [][(pc = "defaults" /\ pc' = "env") =>
        /\ DeepVal(heap', default_config) = DeepVal(heap, default_config)
        /\ Reach(heap', config') \cap Reach(heap', default_config) = {}
        /\ DeepVal(heap', config') =
               WithEnv(DeepVal(heap, default_config), environ')]_vars

\* ORION_DB_ADDRESS alone is set: host changes in the copy only
C7_Witness ==
    /\ pc = "env"
    /\ SetKeys(environ) = {"host"}
    /\ Get(Get(DeepVal(heap, config), "database"), "host") =
           Plain("val", "ORION_DB_ADDRESS")
    /\ Get(Get(DeepVal(heap, default_config), "database"), "host") =
           Plain("val", "10.0.0.2")
    /\ Get(Get(DeepVal(heap, config), "database"), "name") =
           Get(Get(DeepVal(heap, default_config), "database"), "name")
    /\ Get(DeepVal(heap, config), "pool_size") = Plain("val", "4")

(* C6: fetch_config returns a mapping, the empty one without a handle and  *)
(* the parsed one with a handle, an empty document included, so that       *)
(* merge_orion_config accepts its result as cmdconfig without error.       *)
C6_FetchConfigMapping ==
    /\ pc \in {"file", "merged"} =>
           /\ DeepVal(heap, cmdconfig).tag = "map"
           /\ orion_file.kind = "nohandle" => DeepVal(heap, cmdconfig) = EmptyMapV
    /\ pc = "merged" => raised = ""

(* C2: at no merge step does a None from a higher-precedence source        *)
(* replace a value set by a lower-precedence one, 'metadata' apart: a      *)
(* key, top-level or inside 'database', that holds None after the default  *)
(* files are read was not set by the built-in defaults, and one that holds *)
(* None in the resolved configuration was not set in the default one.      *)
C2_NoneNeverOverrides ==
    /\ pc # "start" =>
           LET r == DeepVal(heap, default_config)
           IN  /\ \A k \in TopKeys \ {"metadata"} :
                      Get(r, k) = NoneV => ~IsSet(Get(BuiltinV, k))
               /\ \A vk \in DbKeys :
                      Get(Get(r, "database"), vk) = NoneV =>
                          ~IsSet(Get(Get(BuiltinV, "database"), vk))
    /\ Merged =>
           LET c == DeepVal(heap, config)
               r == DeepVal(heap, expconfig)
           IN  /\ \A k \in TopKeys \ {"metadata"} :
                      Get(r, k) = NoneV => ~IsSet(Get(c, k))
               /\ \A vk \in DbKeys :
                      Get(Get(r, "database"), vk) = NoneV =>
                          ~IsSet(Get(Get(c, "database"), vk))

====
